---- MODULE Spec2Model ----
(***************************************************************************)
(* Model of the secure upload pipeline of src/main.py: SecureFileHandler   *)
(* (validate_filename, validate_file_size, validate_mime_type,             *)
(* generate_secure_filename, save_file_securely, validate_and_store_file)  *)
(* and the register_vendor route that maps its outcome to an HTTP status.  *)
(*                                                                         *)
(* Each upload is one coroutine.  An action is the code one coroutine runs *)
(* from one stage of validate_and_store_file to the next; the upload       *)
(* directory `fs` is the only state shared between uploads.                *)
(*                                                                         *)
(* Byte counts are scaled: max_size, the 1024-byte sniff and the 8192-byte *)
(* chunk are small numbers that keep their order (sniff covers the whole   *)
(* signature, chunk <= max_size, contents exist above and below each).     *)
(***************************************************************************)
EXTENDS Integers, Sequences, FiniteSets, TLC

\* ------------------------------------------------------------------ bounds

\* Longest upload content, in bytes (one more than max_size).
MaxLen == 4

\* Number of distinct values uuid.uuid4() can return in one run.
MaxUuid == 2

\* The uploads (requests) of one run; each is handled once.
Uploads == {"u1", "u2"}

\* ------------------------------------------------------- program constants

\* MAX_FILE_SIZE = 10 * 1024 * 1024, scaled.
MAX_FILE_SIZE == 3

\* file.read(1024) of validate_mime_type, scaled: longer than the signature,
\* so that a valid upload can be shorter than one sniff.
SniffLen == 3

\* file.read(8192) of save_file_securely, scaled.
ChunkSize == 2

\* hexdigest()[:8]: the size of the space of truncated digests, scaled.
DigestSpace == 4

UPLOAD_DIR == "uploads"

ALLOWED_MIME_TYPES == {"application/pdf"}

ALLOWED_EXTENSIONS == {<<".", "p", "d", "f">>}

\* ------------------------------------------------------------ byte strings

Min(a, b) == IF a < b THEN a ELSE b

\* s[from : to] of Python (0-based, end exclusive), on a sequence.
Slice(s, from, to) ==
    IF Min(to, Len(s)) <= from THEN <<>> ELSE SubSeq(s, from + 1, Min(to, Len(s)))

\* `needle in s` on strings: needle occurs as a contiguous run of s.
Contains(s, needle) ==
    \E i \in 0..(Len(s) - Len(needle)) : Slice(s, i, i + Len(needle)) = needle

\* Index (1-based) of the last occurrence of character c in s, 0 if none.
RFind(s, c) ==
    IF \E i \in 1..Len(s) : s[i] = c
    THEN CHOOSE i \in 1..Len(s) : s[i] = c /\ \A j \in (i + 1)..Len(s) : s[j] # c
    ELSE 0

\* str.lower() on the characters that occur in the modelled filenames.
LowerChar(c) ==
    CASE c = "P" -> "p"
      [] c = "D" -> "d"
      [] c = "F" -> "f"
      [] OTHER -> c

Lower(s) == [i \in 1..Len(s) |-> LowerChar(s[i])]

\* PurePath.name: the final path component.
PathName(s) == Slice(s, RFind(s, "/"), Len(s))

\* PurePath.suffix: the final component's last dot and what follows it, unless
\* that dot is the component's first or last character.
PathSuffix(s) ==
    LET name == PathName(s)
        i == RFind(name, ".")
    IN  IF 1 < i /\ i < Len(name) THEN Slice(name, i - 1, Len(name)) ELSE <<>>

\* ------------------------------------------------------------------ inputs

Filenames ==
    { <<>>,
      <<"d", "o", "c", ".", "p", "d", "f">>,
      <<"d", "o", "c", ".", "P", "D", "F">>,
      <<"d", "o", "c", ".", "t", "x", "t">>,
      <<".", "p", "d", "f">>,
      <<"a", ".", ".", "p", "d", "f">>,
      <<"x", "/", "y", ".", "p", "d", "f">>,
      <<"a", "\\", "b", ".", "p", "d", "f">>,
      \* ../../etc/passwd.pdf
      <<".", ".", "/", ".", ".", "/", "e", "t", "c", "/",
        "p", "a", "s", "s", "w", "d", ".", "p", "d", "f">> }

ContentTypes == {"application/pdf", "text/plain"}

\* The leading bytes of a PDF ("%P...", scaled to two bytes) and two
\* near misses; bytes after the head are their own offset, so that a lost,
\* repeated or reordered chunk changes the content.
PdfSignature == <<37, 80>>

Heads == {PdfSignature, <<37, 120>>, <<120, 80>>}

ContentOf(head, n) == [i \in 1..n |-> IF i <= Len(head) THEN head[i] ELSE i]

Contents == {ContentOf(h, n) : h \in Heads, n \in 0..MaxLen}

NoFile == [filename |-> <<>>, content_type |-> "none", content |-> <<>>]

\* ------------------------------------------------------------ UploadFile

\* file.read(n): the bytes from the file position on, at most n of them.
FileRead(content, position, n) == Slice(content, position, position + n)

\* file.read(): the bytes from the file position to the end.
FileReadAll(content, position) == Slice(content, position, Len(content))

seek_ignored(position, offset) == position

\* file.seek(offset): the file position after it.
seek(position, offset) == offset

\* ------------------------------------------------------------- exceptions

\* FileValidationError carries only a message; `kind` names which message.
NoExc == [type |-> "none", kind |-> "none", cause |-> "none"]

FileValidationError(kind) ==
    [type |-> "FileValidationError", kind |-> kind, cause |-> "none"]

ValidationKinds ==
    {"EmptyFilename", "PathTraversal", "DisallowedExtension",
     "OversizedFile", "DisallowedMimeType", "MimeMismatch"}

\* ------------------------------------------------------ SecureFileHandler

max_size == MAX_FILE_SIZE

validate_filename_no_traversal(filename) ==
    IF filename = <<>> THEN "EmptyFilename"
    ELSE IF Lower(PathSuffix(filename)) \notin ALLOWED_EXTENSIONS
         THEN "DisallowedExtension"
         ELSE "ok"

\* validate_filename: "ok", or the kind of the FileValidationError raised.
validate_filename(filename) ==
    IF filename = <<>> THEN "EmptyFilename"
    ELSE IF \/ Contains(filename, <<".", ".">>)
            \/ Contains(filename, <<"/">>)
            \/ Contains(filename, <<"\\">>)
         THEN "PathTraversal"
         ELSE IF Lower(PathSuffix(filename)) \notin ALLOWED_EXTENSIONS
              THEN "DisallowedExtension"
              ELSE "ok"

validate_file_size_unchecked(file_size) == "ok"

validate_file_size_off_by_one(file_size) ==
    IF file_size >= max_size THEN "OversizedFile" ELSE "ok"

\* validate_file_size, after the read: the comparison with self.max_size.
validate_file_size(file_size) ==
    IF file_size > max_size THEN "OversizedFile" ELSE "ok"

\* magic.from_buffer(chunk, mime=True): the type of the leading bytes.
magic_from_buffer(chunk) ==
    IF chunk = <<>> THEN "application/x-empty"
    ELSE IF Slice(chunk, 0, Len(PdfSignature)) = PdfSignature
         THEN "application/pdf"
         ELSE IF chunk[1] = PdfSignature[1] THEN "text/plain"
              ELSE "application/octet-stream"

validate_mime_type_no_spoof_check(chunk, declared_mime) ==
    LET detected_mime == magic_from_buffer(chunk)
    IN  IF detected_mime \notin ALLOWED_MIME_TYPES
        THEN [kind |-> "DisallowedMimeType", detected |-> detected_mime]
        ELSE [kind |-> "ok", detected |-> detected_mime]

validate_mime_type_trusts_declared(chunk, declared_mime) ==
    LET detected_mime == magic_from_buffer(chunk)
    IN  IF declared_mime \notin ALLOWED_MIME_TYPES
        THEN [kind |-> "DisallowedMimeType", detected |-> detected_mime]
        ELSE [kind |-> "ok", detected |-> detected_mime]

\* validate_mime_type, after the read of the first chunk: the two checks.
validate_mime_type(chunk, declared_mime) ==
    LET detected_mime == magic_from_buffer(chunk)
    IN  IF detected_mime \notin ALLOWED_MIME_TYPES
        THEN [kind |-> "DisallowedMimeType", detected |-> detected_mime]
        ELSE IF declared_mime # detected_mime
             THEN [kind |-> "MimeMismatch", detected |-> detected_mime]
             ELSE [kind |-> "ok", detected |-> detected_mime]

\* The characters of the modelled filenames, in a fixed order (their codes).
Alphabet ==
    <<".", "/", "\\", "a", "b", "c", "d", "e", "f", "o", "p", "s", "t", "w",
      "x", "y", "D", "F", "P">>

Ord(c) == CHOOSE i \in 1..Len(Alphabet) : Alphabet[i] = c

RECURSIVE DigestFrom(_, _)
DigestFrom(s, h) ==
    IF s = <<>> THEN h
    ELSE DigestFrom(Tail(s), (h * 31 + Ord(Head(s))) % DigestSpace)

\* hashlib.sha256(original_filename.encode()).hexdigest()[:8]: a fixed
\* function of the name with a finite range, so two names can share a digest.
sha256_prefix(original_filename) == DigestFrom(original_filename, 0)

UUIDs == 1..MaxUuid

\* uuid.uuid4(): the values a call can return, given those already returned.
\* A version-4 UUID has 122 random bits; a repeat is taken not to happen.
uuid4(issued_ids) == UUIDs \ issued_ids

generate_secure_filename_no_uuid(original_filename, unique_id) ==
    <<0, sha256_prefix(original_filename), Lower(PathSuffix(original_filename))>>

\* generate_secure_filename: f"{unique_id}_{filename_hash}{file_ext}".
generate_secure_filename(original_filename, unique_id) ==
    <<unique_id, sha256_prefix(original_filename),
      Lower(PathSuffix(original_filename))>>

NoName == <<>>

\* str(self.upload_dir / filename)
file_path(filename) == <<UPLOAD_DIR, filename>>

\* ------------------------------------------------------ upload directory

\* Permission bits; 0o600 is owner read and write.
AllBits == {"ur", "uw", "gr", "gw", "or", "ow"}

Mode0600 == {"ur", "uw"}

\* The process umask when the file is created (0o022 or 0o000).
Umasks == {{"gw", "ow"}, {}}

\* open(path, 'wb'): creates the file with mode 0o666 & ~umask, or empties an
\* existing one and leaves its mode alone.  `owner` is the upload whose open
\* created or emptied it (a record of the history, not program state).
open_wb(dir, name, umask, u) ==
    [n \in DOMAIN dir \cup {name} |->
        IF n = name
        THEN [content |-> <<>>,
              mode |-> IF name \in DOMAIN dir THEN dir[name].mode
                       ELSE AllBits \ umask,
              owner |-> u]
        ELSE dir[n]]

\* f.write(chunk)
write_chunk(dir, name, chunk) ==
    [dir EXCEPT ![name].content = dir[name].content \o chunk]

chmod_skipped(dir, name) == dir

\* os.chmod(file_path, 0o600)
chmod_0600(dir, name) == [dir EXCEPT ![name].mode = Mode0600]

unlink_forgotten(dir, name) == dir

\* file_path.unlink()
unlink(dir, name) == [n \in DOMAIN dir \ {name} |-> dir[n]]

\* --------------------------------------------------------- register_vendor

\* The status register_vendor answers with: its `except FileValidationError`
\* clause, its `except Exception` clause, or the JSONResponse of a success.
\* CancelledError is a BaseException: neither clause catches it and no
\* response is made (0).
register_vendor_status(exc) ==
    CASE exc.type = "none" -> 200
      [] exc.type = "FileValidationError" -> 400
      [] exc.type = "CancelledError" -> 0
      [] OTHER -> 500

StageAfter_mime_before_size(stage) ==
    CASE stage = "filename" -> "mime"
      [] stage = "mime" -> "size"
      [] stage = "size" -> "naming"
      [] stage = "naming" -> "open"

\* The stages of validate_and_store_file, in the order of its statements.
StageAfter(stage) ==
    CASE stage = "filename" -> "size"
      [] stage = "size" -> "mime"
      [] stage = "mime" -> "naming"
      [] stage = "naming" -> "open"

\* ------------------------------------------------------------------- state

VARIABLES
    pc,               \* per upload: where its coroutine stands
    file,             \* per upload: the UploadFile (filename, content_type, content)
    pos,              \* per upload: the UploadFile's read position
    exc,              \* per upload: the exception that ended it, or NoExc
    status,           \* per upload: the HTTP status answered, 0 if none
    secure_filename,  \* per upload: the generated storage name, or NoName
    detected_mime,    \* per upload: what validate_mime_type returned
    stored_path,      \* per upload: what save_file_securely returned
    fs,               \* the upload directory: storage name -> file
    issued,           \* the values uuid4() has returned
    ran               \* per upload: the stages that have run, in order (history)

vars == <<pc, file, pos, exc, status, secure_filename, detected_mime,
          stored_path, fs, issued, ran>>

Init ==
    /\ pc = [u \in Uploads |-> "idle"]
    /\ file = [u \in Uploads |-> NoFile]
    /\ pos = [u \in Uploads |-> 0]
    /\ exc = [u \in Uploads |-> NoExc]
    /\ status = [u \in Uploads |-> 0]
    /\ secure_filename = [u \in Uploads |-> NoName]
    /\ detected_mime = [u \in Uploads |-> "none"]
    /\ stored_path = [u \in Uploads |-> <<>>]
    /\ fs = <<>>
    /\ issued = {}
    /\ ran = [u \in Uploads |-> <<>>]

\* An exception leaves validate_and_store_file and reaches register_vendor.
Raise(u, e) ==
    /\ exc' = [exc EXCEPT ![u] = e]
    /\ status' = [status EXCEPT ![u] = register_vendor_status(e)]
    /\ pc' = [pc EXCEPT ![u] = IF e.type = "CancelledError" THEN "cancelled"
                                ELSE "failed"]

\* A request arrives; validate_and_store_file starts with file.seek(0).
Start(u) ==
    /\ pc[u] = "idle"
    /\ \E fn \in Filenames, ct \in ContentTypes, c \in Contents :
           file' = [file EXCEPT ![u] =
                       [filename |-> fn, content_type |-> ct, content |-> c]]
    /\ pos' = [pos EXCEPT ![u] = seek(@, 0)]
    /\ pc' = [pc EXCEPT ![u] = "filename"]
    /\ UNCHANGED <<exc, status, secure_filename, detected_mime, stored_path,
                   fs, issued, ran>>

\* self.validate_filename(file.filename)
FilenameCheck(u) ==
    /\ pc[u] = "filename"
    /\ ran' = [ran EXCEPT ![u] = Append(@, "filename")]
    /\ LET kind == validate_filename(file[u].filename)
       IN  IF kind = "ok"
           THEN /\ pc' = [pc EXCEPT ![u] = StageAfter("filename")]
                /\ UNCHANGED <<exc, status>>
           ELSE Raise(u, FileValidationError(kind))
    /\ UNCHANGED <<file, pos, secure_filename, detected_mime, stored_path,
                   fs, issued>>

\* await self.validate_file_size(file): read all, seek(0), compare.
SizeCheck(u) ==
    /\ pc[u] = "size"
    /\ ran' = [ran EXCEPT ![u] = Append(@, "size")]
    /\ LET content == FileReadAll(file[u].content, pos[u])
           kind == validate_file_size(Len(content))
       IN  IF kind = "ok"
           THEN /\ pc' = [pc EXCEPT ![u] = StageAfter("size")]
                /\ UNCHANGED <<exc, status>>
           ELSE Raise(u, FileValidationError(kind))
    /\ pos' = [pos EXCEPT ![u] =
                  seek(@ + Len(FileReadAll(file[u].content, @)), 0)]
    /\ UNCHANGED <<file, secure_filename, detected_mime, stored_path, fs,
                   issued>>

\* await self.validate_mime_type(file): read(1024), seek(0), the two checks.
MimeCheck(u) ==
    /\ pc[u] = "mime"
    /\ ran' = [ran EXCEPT ![u] = Append(@, "mime")]
    /\ LET chunk == FileRead(file[u].content, pos[u], SniffLen)
           r == validate_mime_type(chunk, file[u].content_type)
       IN  IF r.kind = "ok"
           THEN /\ pc' = [pc EXCEPT ![u] = StageAfter("mime")]
                /\ detected_mime' = [detected_mime EXCEPT ![u] = r.detected]
                /\ UNCHANGED <<exc, status>>
           ELSE /\ Raise(u, FileValidationError(r.kind))
                /\ UNCHANGED detected_mime
    /\ pos' = [pos EXCEPT ![u] =
                  seek(@ + Len(FileRead(file[u].content, @, SniffLen)), 0)]
    /\ UNCHANGED <<file, secure_filename, stored_path, fs, issued>>

\* self.generate_secure_filename(file.filename)
Naming(u) ==
    /\ pc[u] = "naming"
    /\ ran' = [ran EXCEPT ![u] = Append(@, "naming")]
    /\ \E unique_id \in uuid4(issued) :
           /\ secure_filename' = [secure_filename EXCEPT ![u] =
                  generate_secure_filename(file[u].filename, unique_id)]
           /\ issued' = issued \cup {unique_id}
    /\ pc' = [pc EXCEPT ![u] = StageAfter("naming")]
    /\ UNCHANGED <<file, pos, exc, status, detected_mime, stored_path, fs>>

\* ------------------------------------------------------ save_file_securely

StorageFailure(cause) ==
    [type |-> "FileValidationError", kind |-> "StorageFailure", cause |-> cause]

\* What the failure of file_path.unlink() inside the except clause raises: it
\* leaves the clause in place of the FileValidationError.
UnlinkError == [type |-> "OSError", kind |-> "UnlinkFailed", cause |-> "unlink"]

\* The except clause of save_file_securely, entered with exception `cause`:
\* unlink the file if it exists, then raise FileValidationError.  The unlink
\* can itself fail; nothing catches that.
ExceptClause(u, cause) ==
    LET name == secure_filename[u]
    IN  IF name \in DOMAIN fs
        THEN \/ /\ fs' = unlink(fs, name)
                /\ Raise(u, StorageFailure(cause))
             \/ /\ fs' = fs
                /\ Raise(u, UnlinkError)
        ELSE /\ fs' = fs
             /\ Raise(u, StorageFailure(cause))

\* async with aiofiles.open(file_path, 'wb') as f
OpenFile(u) ==
    /\ pc[u] = "open"
    /\ ran' = [ran EXCEPT ![u] = Append(@, "write")]
    /\ \E umask \in Umasks : fs' = open_wb(fs, secure_filename[u], umask, u)
    /\ pc' = [pc EXCEPT ![u] = "write"]
    /\ UNCHANGED <<file, pos, exc, status, secure_filename, detected_mime,
                   stored_path, issued>>

\* aiofiles.open raises.
OpenFails(u) ==
    /\ pc[u] = "open"
    /\ ran' = [ran EXCEPT ![u] = Append(@, "write")]
    /\ ExceptClause(u, "open")
    /\ UNCHANGED <<file, pos, secure_filename, detected_mime, stored_path,
                   issued>>

\* One turn of `while chunk := await file.read(8192): await f.write(chunk)`;
\* an empty chunk ends the loop.
WriteChunk(u) ==
    /\ pc[u] = "write"
    /\ LET chunk == FileRead(file[u].content, pos[u], ChunkSize)
       IN  IF chunk = <<>>
           THEN /\ pc' = [pc EXCEPT ![u] = "chmod"]
                /\ UNCHANGED <<pos, fs>>
           ELSE /\ fs' = write_chunk(fs, secure_filename[u], chunk)
                /\ pos' = [pos EXCEPT ![u] = @ + Len(chunk)]
                /\ UNCHANGED pc
    /\ UNCHANGED <<file, exc, status, secure_filename, detected_mime,
                   stored_path, issued, ran>>

\* file.read or f.write raises.
ChunkFails(u) ==
    /\ pc[u] = "write"
    /\ \E cause \in {"read", "write"} : ExceptClause(u, cause)
    /\ UNCHANGED <<file, pos, secure_filename, detected_mime, stored_path,
                   issued, ran>>

\* The file is closed; os.chmod(file_path, 0o600); return str(file_path).
CloseAndChmod(u) ==
    /\ pc[u] = "chmod"
    /\ fs' = chmod_0600(fs, secure_filename[u])
    /\ stored_path' = [stored_path EXCEPT ![u] = file_path(secure_filename[u])]
    /\ pc' = [pc EXCEPT ![u] = "respond"]
    /\ UNCHANGED <<file, pos, exc, status, secure_filename, detected_mime,
                   issued, ran>>

\* The close or os.chmod raises.
ChmodFails(u) ==
    /\ pc[u] = "chmod"
    /\ \E cause \in {"close", "chmod"} : ExceptClause(u, cause)
    /\ UNCHANGED <<file, pos, secure_filename, detected_mime, stored_path,
                   issued, ran>>

\* register_vendor builds the JSONResponse (it reads the rest of msa_file).
Respond(u) ==
    /\ pc[u] = "respond"
    /\ pos' = [pos EXCEPT ![u] = @ + Len(FileReadAll(file[u].content, @))]
    /\ status' = [status EXCEPT ![u] = register_vendor_status(exc[u])]
    /\ pc' = [pc EXCEPT ![u] = "done"]
    /\ UNCHANGED <<file, exc, secure_filename, detected_mime, stored_path,
                   fs, issued, ran>>

\* The stages at which the coroutine is suspended in an await.
Suspended == {"size", "mime", "open", "write", "chmod", "respond"}

CancelledError == [type |-> "CancelledError", kind |-> "none", cause |-> "none"]

\* The task is cancelled: CancelledError is raised at the await.  It is a
\* BaseException, so `except Exception` of save_file_securely does not run;
\* leaving the `async with` closes the file and nothing else.
Cancel(u) ==
    /\ pc[u] \in Suspended
    /\ Raise(u, CancelledError)
    /\ UNCHANGED <<file, pos, secure_filename, detected_mime, stored_path,
                   fs, issued, ran>>

Next ==
    \E u \in Uploads :
        \/ Start(u)
        \/ FilenameCheck(u)
        \/ SizeCheck(u)
        \/ MimeCheck(u)
        \/ Naming(u)
        \/ OpenFile(u)
        \/ OpenFails(u)
        \/ WriteChunk(u)
        \/ ChunkFails(u)
        \/ CloseAndChmod(u)
        \/ ChmodFails(u)
        \/ Respond(u)
        \/ Cancel(u)

Spec == Init /\ [][Next]_vars

\* ------------------------------------------------------ what the claims say

\* The filename contains "..", "/" or "\".
HasTraversal(fn) ==
    \/ \E i \in 1..Len(fn) : fn[i] \in {"/", "\\"}
    \/ \E i \in 1..(Len(fn) - 1) : fn[i] = "." /\ fn[i + 1] = "."

\* The filename ends in ".pdf" in any case, after at least one character.
HasPdfExtension(fn) ==
    /\ Len(fn) > 4
    /\ fn[Len(fn) - 3] = "."
    /\ fn[Len(fn) - 2] \in {"p", "P"}
    /\ fn[Len(fn) - 1] \in {"d", "D"}
    /\ fn[Len(fn)] \in {"f", "F"}

\* The type sniffed from the first 1 KiB of the upload's content.
Sniffed(u) == magic_from_buffer(Slice(file[u].content, 0, SniffLen))

\* The files of the upload directory that upload u's open created.
OwnedFiles(u) == {n \in DOMAIN fs : fs[n].owner = u}

\* The upload was rejected by one of the checks.
Rejected(u) == pc[u] = "failed" /\ exc[u].kind \in ValidationKinds

\* The upload passed every check (validate_mime_type returned).
Accepted(u) == detected_mime[u] # "none"

\* Stage s of validate_and_store_file has run for upload u.
HasRun(u, s) == \E i \in 1..Len(ran[u]) : ran[u][i] = s

\* C1: an upload whose filename contains "..", "/" or "\" never gets past the
\* filename check, fails with the path-traversal error, and no file of the
\* upload directory is ever written for it.
C1_TraversalRejected ==
    \A u \in Uploads :
        HasTraversal(file[u].filename) =>
            /\ pc[u] \in {"filename", "failed"}
            /\ pc[u] = "failed" => exc[u] = FileValidationError("PathTraversal")
            /\ OwnedFiles(u) = {}
            /\ secure_filename[u] = NoName

\* C1 witness: an upload with ".." in its name was rejected with
\* PathTraversal while the other upload's file is in the directory.
C1_Witness ==
    \E u \in Uploads :
        /\ Contains(file[u].filename, <<".", ".">>)
        /\ pc[u] = "failed"
        /\ exc[u].kind = "PathTraversal"
        /\ DOMAIN fs # {}

\* The upload's inputs pass the filename, size and sniffed-MIME checks.
PassesAllChecks(u) ==
    /\ file[u].filename # <<>>
    /\ ~HasTraversal(file[u].filename)
    /\ HasPdfExtension(file[u].filename)
    /\ Len(file[u].content) <= max_size
    /\ Sniffed(u) \in ALLOWED_MIME_TYPES
    /\ file[u].content_type = Sniffed(u)

\* C2 (state part): every file in the upload directory belongs to an upload
\* that passed the filename, size and MIME checks; a rejected upload has none.
C2_StoredOnlyIfPassed ==
    /\ \A n \in DOMAIN fs : PassesAllChecks(fs[n].owner) /\ Accepted(fs[n].owner)
    /\ \A u \in Uploads : Rejected(u) => OwnedFiles(u) = {}

\* C2 (step part): the step in which a check rejects an upload leaves the
\* upload directory as it was.
C2_RejectionLeavesDirectory ==
    \A u \in Uploads :
        (exc[u] = NoExc /\ exc'[u].kind \in ValidationKinds) => fs' = fs

\* C2: a file is persisted only after all checks pass, and a rejection leaves
\* the upload directory unchanged.
C2_PersistedOnlyAfterChecks ==
    []C2_StoredOnlyIfPassed /\ [][C2_RejectionLeavesDirectory]_vars

\* C2 witness: one upload's file is in the directory, complete, and the other
\* upload was rejected by the MIME check.
C2_Witness ==
    \E u, v \in Uploads :
        /\ pc[u] = "done" /\ OwnedFiles(u) # {}
        /\ Rejected(v) /\ exc[v].kind = "MimeMismatch"

\* C3 as claimed: every upload that finished the MIME check with a declared
\* type different from the sniffed type failed with MimeMismatch.
C3_AsClaimed ==
    \A u \in Uploads :
        (HasRun(u, "mime") /\ file[u].content_type # Sniffed(u)) =>
            exc[u] = FileValidationError("MimeMismatch")

\* C3 as amended: an upload that finished the MIME check with a declared type
\* different from the sniffed type was rejected, with MimeMismatch when the
\* sniffed type is an allowed type and with DisallowedMimeType when it is not;
\* it is never accepted.
C3_MismatchRejected ==
    \A u \in Uploads :
        (HasRun(u, "mime") /\ file[u].content_type # Sniffed(u)) =>
            /\ pc[u] = "failed"
            /\ ~Accepted(u)
            /\ OwnedFiles(u) = {}
            /\ exc[u] = IF Sniffed(u) \in ALLOWED_MIME_TYPES
                        THEN FileValidationError("MimeMismatch")
                        ELSE FileValidationError("DisallowedMimeType")

\* C3 witness: PDF content declared as text/plain was rejected with
\* MimeMismatch.
C3_Witness ==
    \E u \in Uploads :
        /\ HasRun(u, "mime")
        /\ Sniffed(u) = "application/pdf"
        /\ file[u].content_type = "text/plain"
        /\ exc[u].kind = "MimeMismatch"

\* C4: an upload that finished the MIME check and whose first 1 KiB is not
\* sniffed as an allowed type failed with DisallowedMimeType, whatever type
\* was declared.
C4_UnsniffedRejected ==
    \A u \in Uploads :
        (HasRun(u, "mime") /\ Sniffed(u) \notin ALLOWED_MIME_TYPES) =>
            /\ pc[u] = "failed"
            /\ exc[u] = FileValidationError("DisallowedMimeType")
            /\ ~Accepted(u)

\* C4 witness: content without the PDF signature, declared application/pdf
\* under the name doc.pdf, was rejected with DisallowedMimeType.
C4_Witness ==
    \E u \in Uploads :
        /\ file[u].content_type = "application/pdf"
        /\ file[u].filename = <<"d", "o", "c", ".", "p", "d", "f">>
        /\ Len(file[u].content) > 0
        /\ Sniffed(u) \notin ALLOWED_MIME_TYPES
        /\ exc[u].kind = "DisallowedMimeType"

\* Validation of the upload is over: a check rejected it or all passed.
Validated(u) == Rejected(u) \/ Accepted(u)

\* What C5 says of a validated upload: longer than the maximum, it failed
\* with OversizedFile; not longer, with a PDF signature and a matching
\* declared type, it was accepted.
SizeDecides(u) ==
    /\ Len(file[u].content) > max_size =>
           exc[u] = FileValidationError("OversizedFile")
    /\ ( /\ Len(file[u].content) <= max_size
         /\ Sniffed(u) = "application/pdf"
         /\ file[u].content_type = Sniffed(u) ) => Accepted(u)

\* C5 as claimed: for every validated upload, whatever its filename.
C5_AsClaimed == \A u \in Uploads : Validated(u) => SizeDecides(u)

\* C5 as amended: for every validated upload that reached the size check,
\* that is, whose filename passed the filename check.
C5_SizeBoundary ==
    \A u \in Uploads : (Validated(u) /\ HasRun(u, "size")) => SizeDecides(u)

\* C5 witness: an upload of exactly the maximum length was accepted and one a
\* byte longer was rejected with OversizedFile.
C5_Witness ==
    \E u, v \in Uploads :
        /\ Len(file[u].content) = max_size /\ Accepted(u)
        /\ Len(file[v].content) = max_size + 1
        /\ exc[v].kind = "OversizedFile"

\* C6: two uploads with the same original filename, in any interleaving, get
\* two distinct storage names, and each one's file holds exactly the bytes
\* its own upload has written so far: the other's open did not empty it and
\* the other's writes did not land in it.
C6_DistinctPathsNoOverwrite ==
    \A u, v \in Uploads :
        ( /\ u # v
          /\ file[u].filename = file[v].filename
          /\ secure_filename[u] # NoName
          /\ secure_filename[v] # NoName ) =>
            /\ secure_filename[u] # secure_filename[v]
            /\ file_path(secure_filename[u]) # file_path(secure_filename[v])
            /\ pc[u] \in {"write", "chmod", "respond", "done"} =>
                   /\ secure_filename[u] \in DOMAIN fs
                   /\ fs[secure_filename[u]].owner = u
                   /\ fs[secure_filename[u]].content =
                          Slice(file[u].content, 0, pos[u])
            /\ pc[u] \in {"respond", "done"} =>
                   fs[secure_filename[u]].content = file[u].content

\* C6 witness: both uploads were named doc.pdf, had different contents, and
\* both are stored, each under its own path with its own content.
C6_Witness ==
    \E u, v \in Uploads :
        /\ u # v
        /\ file[u].filename = <<"d", "o", "c", ".", "p", "d", "f">>
        /\ file[v].filename = file[u].filename
        /\ file[u].content # file[v].content
        /\ pc[u] = "done" /\ pc[v] = "done"
        /\ stored_path[u] # stored_path[v]
        /\ fs[secure_filename[u]].content = file[u].content
        /\ fs[secure_filename[v]].content = file[v].content

\* The order of the stages, and the stage each check belongs to.
StageOrder == <<"filename", "size", "mime", "naming", "write">>

StageOfKind(kind) ==
    CASE kind \in {"EmptyFilename", "PathTraversal", "DisallowedExtension"} -> 1
      [] kind = "OversizedFile" -> 2
      [] kind \in {"DisallowedMimeType", "MimeMismatch"} -> 3

\* The first check, in the order the claim gives, that the upload's inputs
\* fail; "ok" if they pass all of them.
FirstFailure(u) ==
    CASE file[u].filename = <<>> -> "EmptyFilename"
      [] file[u].filename # <<>> /\ HasTraversal(file[u].filename) -> "PathTraversal"
      [] /\ file[u].filename # <<>>
         /\ ~HasTraversal(file[u].filename)
         /\ ~HasPdfExtension(file[u].filename) -> "DisallowedExtension"
      [] OTHER ->
            IF Len(file[u].content) > max_size THEN "OversizedFile"
            ELSE IF Sniffed(u) \notin ALLOWED_MIME_TYPES THEN "DisallowedMimeType"
            ELSE IF file[u].content_type # Sniffed(u) THEN "MimeMismatch"
            ELSE "ok"

PasswdPdf ==
    <<".", ".", "/", ".", ".", "/", "e", "t", "c", "/",
      "p", "a", "s", "s", "w", "d", ".", "p", "d", "f">>

\* C7: the stages run in the fixed order filename, size, MIME, naming, write;
\* a rejected upload reports the first check its inputs fail and no stage
\* after that check's stage has run; an accepted upload's inputs fail none.
\* ../../etc/passwd.pdf with a PDF's content and declared type is rejected
\* with PathTraversal after the filename stage alone.
C7_FixedOrderFirstFailure ==
    \A u \in Uploads :
        /\ ran[u] = SubSeq(StageOrder, 1, Len(ran[u]))
        /\ Rejected(u) =>
               /\ exc[u].kind = FirstFailure(u)
               /\ Len(ran[u]) = StageOfKind(exc[u].kind)
               /\ secure_filename[u] = NoName
               /\ OwnedFiles(u) = {}
        /\ Accepted(u) => FirstFailure(u) = "ok"
        /\ ( /\ file[u].filename = PasswdPdf
             /\ pc[u] # "filename" ) =>
               /\ exc[u] = FileValidationError("PathTraversal")
               /\ ran[u] = <<"filename">>

\* C7 witness: ../../etc/passwd.pdf, declared application/pdf, with a PDF's
\* content that is also too long, was rejected with PathTraversal after the
\* filename stage alone.
C7_Witness ==
    \E u \in Uploads :
        /\ file[u].filename = PasswdPdf
        /\ file[u].content_type = "application/pdf"
        /\ Sniffed(u) = "application/pdf"
        /\ Len(file[u].content) > max_size
        /\ exc[u].kind = "PathTraversal"
        /\ ran[u] = <<"filename">>

\* The upload failed in the write phase of save_file_securely.
WriteFailed(u) == pc[u] = "failed" /\ HasRun(u, "write")

WriteCauses == {"open", "read", "write", "close", "chmod"}

C9_CancelCleansUp ==
    \A u \in Uploads :
        ( /\ pc[u] = "cancelled"
          /\ HasRun(u, "write")
          /\ stored_path[u] = <<>> ) => OwnedFiles(u) = {}

\* C10 as claimed: a rejected upload is answered with 400 and an upload that
\* failed in the write phase with 500.
C10_StatusByFailure ==
    \A u \in Uploads :
        /\ Rejected(u) => status[u] = 400
        /\ WriteFailed(u) => status[u] = 500

\* The upload's write phase failed and the deletion of its partial file
\* failed too: the file it had opened is still in the upload directory.
CleanupFailed(u) == WriteFailed(u) /\ secure_filename[u] \in DOMAIN fs

\* C11 as claimed: when a write fails and the cleanup of the partial file
\* fails as well, the error that reaches the caller is still the
\* StorageFailure carrying the cause of the write failure.
C11_CleanupFailureDoesNotMask ==
    \A u \in Uploads :
        CleanupFailed(u) =>
            /\ exc[u].type = "FileValidationError"
            /\ exc[u].kind = "StorageFailure"
            /\ exc[u].cause \in WriteCauses

\* save_file_securely has returned for the upload (validate_and_store_file
\* returns its value without another step).
Returned(u) == stored_path[u] # <<>>

\* C12: whenever validate_and_store_file has returned successfully, the
\* stored file exists and its mode is owner read and write only: no group
\* or world bit is set.
C12_StoredFileOwnerOnly ==
    \A u \in Uploads :
        Returned(u) =>
            /\ secure_filename[u] \in DOMAIN fs
            /\ fs[secure_filename[u]].mode = {"ur", "uw"}
            /\ fs[secure_filename[u]].mode \cap {"gr", "gw", "or", "ow"} = {}

\* C12 witness: one upload has returned with its file at owner read and
\* write only, while the other upload's file, still being written, has the
\* group and world bits the open gave it.
C12_Witness ==
    \E u, v \in Uploads :
        /\ Returned(u)
        /\ fs[secure_filename[u]].mode = {"ur", "uw"}
        /\ pc[v] \in {"write", "chmod"}
        /\ {"gr", "or"} \subseteq fs[secure_filename[v]].mode

\* C13: the size check and the MIME sniff leave the upload source at
\* position 0 for the stage after them, so the chunked write starts at byte
\* 0; once save_file_securely has returned, the stored path names a file of
\* the upload directory whose content is the whole uploaded content.
C13_RewoundAndStoredWhole ==
    \A u \in Uploads :
        /\ pc[u] \in {"filename", "size", "mime", "naming", "open"} => pos[u] = 0
        /\ Returned(u) =>
               /\ stored_path[u] = <<UPLOAD_DIR, secure_filename[u]>>
               /\ secure_filename[u] \in DOMAIN fs
               /\ fs[secure_filename[u]].content = file[u].content
               /\ Len(fs[secure_filename[u]].content) = Len(file[u].content)

\* C13 witness: two uploads are stored whole, one whose length is not a
\* multiple of the chunk size and is longer than one chunk, one that is
\* shorter than the 1 KiB sniff.
C13_Witness ==
    \E u, v \in Uploads :
        /\ Returned(u) /\ Returned(v)
        /\ Len(file[u].content) % ChunkSize # 0
        /\ Len(file[u].content) > ChunkSize
        /\ Len(file[v].content) < SniffLen
        /\ fs[secure_filename[u]].content = file[u].content
        /\ fs[secure_filename[v]].content = file[v].content

====
